---- MODULE Spec2Model ----
(***************************************************************************)
(* Prism, an HTTP request echo server (src/prism.go, the variant with the  *)
(* bounded port scan, lines 122-493).                                      *)
(*                                                                         *)
(*   Spec      start-up: main reads PRISM_PORT, findAvailablePort scans    *)
(*             for a port, main binds it and serves; a second instance of  *)
(*             the program ("rival") may start on the port main resolved.  *)
(*   FairSpec  Spec with the scheduling of the main goroutine.             *)
(*   SpecEcho  one request after the other through echoHandler.            *)
(*   SpecForm  echoHandler on requests with a parsed multipart form.       *)
(*   SpecConc  the handlers of two connections, interleaved.               *)
(***************************************************************************)
EXTENDS Integers, Sequences, FiniteSets, TLC

(***************************************************************************)
(* Program constants.                                                      *)
(***************************************************************************)
maxPort == 65535
maxAttempts == 100
DefaultPort == 38438

(***************************************************************************)
(* Bounds of the model.                                                    *)
(***************************************************************************)
\* longest short run of occupied ports in front of the start port
MaxRun == 3
\* offsets (from the start port) at which a run may have a free port
MaxHole == 1
\* offsets (from the start port) at which a bind may fail for another reason
MaxFault == 1

Procs == {"main", "rival"}

VARIABLES
    \* ---- environment: the host's port space
    occupied,    \* ports held exclusively by sockets of foreign processes
    faulty,      \* ports on which a bind fails with a non-conflict error
    env,         \* the value of PRISM_PORT in the environment of main
    \* ---- one record field per running instance of the program
    pc,          \* position of the instance in main / findAvailablePort
    startPort,   \* argument of findAvailablePort
    port,        \* local variable port of findAvailablePort
    attempts,    \* local variable attempts of findAvailablePort
    probe,       \* ports of the open probe listener (empty or one port)
    probes,      \* the binds findAvailablePort has tried so far, in order
    retPort,     \* port returned by findAvailablePort (0 with an error)
    retErr,      \* error returned by findAvailablePort
    listener,    \* ports of the server's listener (empty or one port)
    exitCode,    \* status of os.Exit, 0 while the process runs
    afterBind,   \* whether the rival was started after main had bound
    \* ---- request handling
    hpc,         \* "idle", "received", "handled" or "replayed"
    req,         \* the http.Request the handler is given
    resp,        \* the response written by c.JSON
    console,     \* the body rendering printed to the console
    stream,      \* c.Request.Body, the body stream of the request
    replay,      \* what a consumer after the handler reads from Request.Body
    \* ---- request handling, one goroutine per connection
    gpc,         \* position of each handler goroutine in echoHandler
    conn,        \* the request of each connection and its body stream
    frames,      \* the local variables of each invocation of echoHandler
    written,     \* the response written to each connection
    sink         \* the log: the entries written through logPrint, in order

hostVars == <<occupied, faulty, env>>
portVars == <<hostVars, pc, startPort, port, attempts, probe, probes, retPort,
              retErr, listener, exitCode, afterBind>>
echoVars == <<hpc, req, resp, console, stream, replay>>
concVars == <<gpc, conn, frames, written, sink>>
vars == <<portVars, echoVars, concVars>>

(***************************************************************************)
(* Errors of net.ListenConfig.Listen, lower-cased as in line 233.  A       *)
(* message is the sequence of its phrases; Contains is strings.Contains    *)
(* on phrases.                                                             *)
(***************************************************************************)
ErrAddrInUse == <<"listen tcp4", "bind", "address already in use">>
ErrOnlyOneUsage == <<"listen tcp4", "bind", "only one usage of each socket address">>
ErrAccessPermissions == <<"listen tcp4", "bind", "access permissions">>
ErrPermissionDenied == <<"listen tcp4", "bind", "permission denied">>
ErrTooManyFiles == <<"listen tcp4", "socket", "too many open files">>
NoError == << >>

ConflictErrors == {ErrAddrInUse, ErrOnlyOneUsage, ErrAccessPermissions}
OtherErrors == {ErrPermissionDenied, ErrTooManyFiles}

Contains(s, phrase) == \E i \in 1..Len(s) : s[i] = phrase

\* lines 234-236: the errors after which the scan goes on to the next port
\* (faulty variant: the scan goes on after every error)
IsConflictAny(err) == TRUE
IsConflict(err) ==
    \/ Contains(err, "address already in use")
    \/ Contains(err, "only one usage of each socket address")
    \/ Contains(err, "access permissions")

\* every port some socket holds: foreign sockets, probes and listeners
HeldPorts == occupied \cup UNION {probe[q] \cup listener[q] : q \in Procs}

\* The errors a Listen on port c may return (NoError: the bind succeeds).
\* The Control callback switches address reuse off (SO_REUSEADDR = 0, and
\* SO_EXCLUSIVEADDRUSE on Windows), so a held port is never bound again.
\* (faulty variant: address reuse left on, a held port binds again)
ListenReuse(c) ==
    IF c \in faulty THEN OtherErrors ELSE {NoError}
Listen(c) ==
    IF c \in faulty THEN OtherErrors
    ELSE IF c \in HeldPorts THEN ConflictErrors
    ELSE {NoError}

\* line 202: the condition of the for loop
\* (faulty variant: the unbounded loop of the earlier findAvailablePort)
LoopCondUnbounded(p, a) == p <= maxPort
LoopCond(p, a) == p <= maxPort /\ a < maxAttempts

\* line 238: port++
\* (faulty variants: port--; port += 2)
NextPortDown(p) == p - 1
NextPortSkip(p) == p + 2
NextPort(p) == p + 1

ErrNil == [kind |-> "nil", n |-> 0]
\* line 246: fmt.Errorf("no available ports found after %d attempts", maxAttempts)
ErrExhausted == [kind |-> "exhausted", n |-> maxAttempts]
\* line 243: fmt.Errorf("error checking port %d: %v", port, err)
ErrChecking(p) == [kind |-> "bindfailed", n |-> p]

(***************************************************************************)
(* getPortFromEnv, lines 250-284.  The value of PRISM_PORT is the sequence *)
(* of its characters.                                                      *)
(***************************************************************************)
DigitVal ==
    ("0" :> 0) @@ ("1" :> 1) @@ ("2" :> 2) @@ ("3" :> 3) @@ ("4" :> 4) @@
    ("5" :> 5) @@ ("6" :> 6) @@ ("7" :> 7) @@ ("8" :> 8) @@ ("9" :> 9)
\* line 261: c < '0' || c > '9'
NotDigit(c) == c \notin DOMAIN DigitVal
WhiteSpace == {" ", "<tab>"}

Least(S) == CHOOSE i \in S : \A j \in S : i <= j
Greatest(S) == CHOOSE i \in S : \A j \in S : j <= i

\* line 258: strings.TrimSpace
TrimSpace(t) ==
    LET inner == {i \in 1..Len(t) : t[i] \notin WhiteSpace}
    IN  IF inner = {} THEN << >> ELSE SubSeq(t, Least(inner), Greatest(inner))

\* lines 260-265: the text up to its first character that is not a digit
NumericPart(t) ==
    LET bad == {i \in 1..Len(t) : NotDigit(t[i])}
    IN  IF bad = {} THEN t ELSE SubSeq(t, 1, Least(bad) - 1)

\* the largest int of the builds (GOARCH amd64 and arm64), 2^63 - 1
MaxIntDigits ==
    <<"9", "2", "2", "3", "3", "7", "2", "0", "3", "6", "8", "5", "4", "7", "7",
      "5", "8", "0", "7">>

RECURSIVE StripZeros(_)
StripZeros(t) ==
    IF Len(t) > 1 /\ Head(t) = "0" THEN StripZeros(Tail(t)) ELSE t

\* whether the numeral a is greater than the numeral b of the same length
RECURSIVE NumeralGreater(_, _)
NumeralGreater(a, b) ==
    IF a = << >> THEN FALSE
    ELSE IF DigitVal[Head(a)] # DigitVal[Head(b)] THEN DigitVal[Head(a)] > DigitVal[Head(b)]
    ELSE NumeralGreater(Tail(a), Tail(b))

RECURSIVE NumeralValue(_, _)
NumeralValue(t, acc) ==
    IF t = << >> THEN acc ELSE NumeralValue(Tail(t), 10 * acc + DigitVal[Head(t)])

\* line 272, strconv.Atoi of a non-empty run of digits: a range error above
\* the largest int.  A value of ten digits or more is kept as 10^9: the
\* code only compares the value with 0 and 65535.
Atoi(t) ==
    LET d == StripZeros(t)
    IN  IF Len(d) > Len(MaxIntDigits)
           \/ (Len(d) = Len(MaxIntDigits) /\ NumeralGreater(d, MaxIntDigits))
        THEN [err |-> TRUE, v |-> 0]
        ELSE IF Len(d) > 9 THEN [err |-> FALSE, v |-> 10^9]
        ELSE [err |-> FALSE, v |-> NumeralValue(d, 0)]

\* lines 250-284
\* (faulty variant: without the range check of lines 278-281)
getPortFromEnvUnchecked(e) ==
    IF e = << >> THEN DefaultPort
    ELSE LET portStr == NumericPart(TrimSpace(e))
         IN  IF portStr = << >> THEN DefaultPort
             ELSE IF Atoi(portStr).err THEN DefaultPort
             ELSE Atoi(portStr).v
getPortFromEnv(e) ==
    IF e = << >> THEN DefaultPort
    ELSE LET portStr == NumericPart(TrimSpace(e))
         IN  IF portStr = << >> THEN DefaultPort
             ELSE IF Atoi(portStr).err THEN DefaultPort
             ELSE IF Atoi(portStr).v <= 0 \/ Atoi(portStr).v > maxPort THEN DefaultPort
             ELSE Atoi(portStr).v

\* lines 420-425: initialPort := getPortFromEnv(), handed to findAvailablePort
GetPort(p) ==
    /\ pc[p] = "start"
    /\ startPort' = [startPort EXCEPT ![p] = getPortFromEnv(env)]
    /\ port' = [port EXCEPT ![p] = getPortFromEnv(env)]
    /\ attempts' = [attempts EXCEPT ![p] = 0]
    /\ pc' = [pc EXCEPT ![p] = "scan"]
    /\ UNCHANGED <<hostVars, probe, probes, retPort, retErr, listener, exitCode,
                   afterBind, echoVars, concVars>>

(***************************************************************************)
(* findAvailablePort, lines 196-247, one action per path of the loop body. *)
(***************************************************************************)
\* how lines 226 and 233-236 take the result of a bind
Outcome(err) ==
    IF err = NoError THEN "ok" ELSE IF IsConflict(err) THEN "conflict" ELSE "other"
Probed(c, err) == [port |-> c, class |-> Outcome(err)]

\* lines 202, 246: the loop ends without a port
LoopExit(p) ==
    /\ pc[p] = "scan"
    /\ ~LoopCond(port[p], attempts[p])
    /\ retPort' = [retPort EXCEPT ![p] = 0]
    /\ retErr' = [retErr EXCEPT ![p] = ErrExhausted]
    /\ pc' = [pc EXCEPT ![p] = "failed"]
    /\ UNCHANGED <<hostVars, startPort, port, attempts, probe, probes, listener,
                   exitCode, afterBind, echoVars, concVars>>

\* lines 203-226: the bind succeeds, the probe listener is open
ProbeSuccess(p) ==
    /\ pc[p] = "scan"
    /\ LoopCond(port[p], attempts[p])
    /\ NoError \in Listen(port[p])
    /\ attempts' = [attempts EXCEPT ![p] = @ + 1]
    /\ probe' = [probe EXCEPT ![p] = {port[p]}]
    /\ probes' = [probes EXCEPT ![p] = Append(@, Probed(port[p], NoError))]
    /\ pc' = [pc EXCEPT ![p] = "opened"]
    /\ UNCHANGED <<hostVars, startPort, port, retPort, retErr, listener,
                   exitCode, afterBind, echoVars, concVars>>

\* lines 228-229: listener.Close(); return port, nil
\* (faulty variant: return port, nil with the listener left open)
CloseProbeLeak(p) ==
    /\ pc[p] = "opened"
    /\ retPort' = [retPort EXCEPT ![p] = port[p]]
    /\ retErr' = [retErr EXCEPT ![p] = ErrNil]
    /\ pc' = [pc EXCEPT ![p] = "found"]
    /\ UNCHANGED <<hostVars, startPort, port, attempts, probe, probes, listener,
                   exitCode, afterBind, echoVars, concVars>>
CloseProbe(p) ==
    /\ pc[p] = "opened"
    /\ probe' = [probe EXCEPT ![p] = {}]
    /\ retPort' = [retPort EXCEPT ![p] = port[p]]
    /\ retErr' = [retErr EXCEPT ![p] = ErrNil]
    /\ pc' = [pc EXCEPT ![p] = "found"]
    /\ UNCHANGED <<hostVars, startPort, port, attempts, probes, listener,
                   exitCode, afterBind, echoVars, concVars>>

\* lines 233-240: a conflict-class error, the scan moves to the next port
ProbeConflict(p) ==
    /\ pc[p] = "scan"
    /\ LoopCond(port[p], attempts[p])
    /\ \E err \in Listen(port[p]) :
          /\ err # NoError
          /\ IsConflict(err)
          /\ probes' = [probes EXCEPT ![p] = Append(@, Probed(port[p], err))]
    /\ attempts' = [attempts EXCEPT ![p] = @ + 1]
    /\ port' = [port EXCEPT ![p] = NextPort(@)]
    /\ UNCHANGED <<hostVars, pc, startPort, probe, retPort, retErr,
                   listener, exitCode, afterBind, echoVars, concVars>>

\* line 243: any other error ends the scan
ProbeOtherError(p) ==
    /\ pc[p] = "scan"
    /\ LoopCond(port[p], attempts[p])
    /\ \E err \in Listen(port[p]) :
          /\ err # NoError
          /\ ~IsConflict(err)
          /\ probes' = [probes EXCEPT ![p] = Append(@, Probed(port[p], err))]
    /\ attempts' = [attempts EXCEPT ![p] = @ + 1]
    /\ retPort' = [retPort EXCEPT ![p] = 0]
    /\ retErr' = [retErr EXCEPT ![p] = ErrChecking(port[p])]
    /\ pc' = [pc EXCEPT ![p] = "failed"]
    /\ UNCHANGED <<hostVars, startPort, port, probe, listener,
                   exitCode, afterBind, echoVars, concVars>>

(***************************************************************************)
(* main, lines 420-492.                                                    *)
(***************************************************************************)
\* lines 426-429: the scan failed, os.Exit(1)
ExitOnScanError(p) ==
    /\ pc[p] = "failed"
    /\ pc' = [pc EXCEPT ![p] = "exited"]
    /\ exitCode' = [exitCode EXCEPT ![p] = 1]
    /\ UNCHANGED <<hostVars, startPort, port, attempts, probe, probes, retPort,
                   retErr, listener, afterBind, echoVars, concVars>>

\* lines 455-489: the server's listener is bound on the resolved port
BindListener(p) ==
    /\ pc[p] = "found"
    /\ NoError \in Listen(retPort[p])
    /\ listener' = [listener EXCEPT ![p] = {retPort[p]}]
    /\ pc' = [pc EXCEPT ![p] = "serving"]
    /\ UNCHANGED <<hostVars, startPort, port, attempts, probe, probes, retPort,
                   retErr, exitCode, afterBind, echoVars, concVars>>

\* lines 479-482: the bind fails, os.Exit(1)
\* (faulty variant: the scan is run again from the next port)
BindFailRescan(p) ==
    /\ pc[p] = "found"
    /\ \E err \in Listen(retPort[p]) : err # NoError
    /\ port' = [port EXCEPT ![p] = NextPort(retPort[p])]
    /\ attempts' = [attempts EXCEPT ![p] = 0]
    /\ pc' = [pc EXCEPT ![p] = "scan"]
    /\ UNCHANGED <<hostVars, startPort, probe, probes, retPort, retErr, listener,
                   exitCode, afterBind, echoVars, concVars>>
BindFail(p) ==
    /\ pc[p] = "found"
    /\ \E err \in Listen(retPort[p]) : err # NoError
    /\ pc' = [pc EXCEPT ![p] = "exited"]
    /\ exitCode' = [exitCode EXCEPT ![p] = 1]
    /\ UNCHANGED <<hostVars, startPort, port, attempts, probe, probes, retPort,
                   retErr, listener, afterBind, echoVars, concVars>>

\* A second instance of the program is started with PRISM_PORT set to the
\* port main resolved (lines 421-425 of that instance).
RivalStart ==
    /\ pc["rival"] = "idle"
    /\ pc["main"] \in {"found", "serving"}
    /\ startPort' = [startPort EXCEPT !["rival"] = retPort["main"]]
    /\ port' = [port EXCEPT !["rival"] = retPort["main"]]
    /\ attempts' = [attempts EXCEPT !["rival"] = 0]
    /\ afterBind' = (pc["main"] = "serving")
    /\ pc' = [pc EXCEPT !["rival"] = "scan"]
    /\ UNCHANGED <<hostVars, probe, probes, retPort, retErr, listener, exitCode,
                   echoVars, concVars>>

Step(p) ==
    \/ GetPort(p)
    \/ LoopExit(p)
    \/ ProbeSuccess(p)
    \/ CloseProbe(p)
    \/ ProbeConflict(p)
    \/ ProbeOtherError(p)
    \/ ExitOnScanError(p)
    \/ BindListener(p)
    \/ BindFail(p)

(***************************************************************************)
(* Request handling.  A text (a Go string or []byte) is the sequence of    *)
(* its atoms, an atom standing for a run of bytes: a JSON lexeme, a word,  *)
(* a multipart delimiter, a byte that is not valid UTF-8.                  *)
(***************************************************************************)
Text(a) == <<a>>
Range(s) == {s[i] : i \in 1..Len(s)}

\* ---- JSON values: what encoding/json decodes into an interface{} and what
\* the client finds in the response document
JNull == [t |-> "null", v |-> 0]
JBool(b) == [t |-> "bool", v |-> b]
JNum(n) == [t |-> "num", v |-> n]
JStr(s) == [t |-> "str", v |-> s]
JArr(a) == [t |-> "arr", v |-> a]
JObj(f) == [t |-> "obj", v |-> f]

\* a number: (hi * 2^30 + lo) * 10^e, with lo < 2^30
Num(hi, lo, e) == [hi |-> hi, lo |-> lo, e |-> e]

\* the number lexemes of the model and their exact values
NumTable ==
    ("0" :> Num(0, 0, 0)) @@ ("25" :> Num(0, 25, 0)) @@
    ("9007199254740992" :> Num(2^23, 0, 0)) @@
    ("9007199254740993" :> Num(2^23, 1, 0)) @@
    ("9007199254740995" :> Num(2^23, 3, 0)) @@
    ("1e400" :> Num(0, 1, 400))
\* the string lexemes of the model and the strings they denote
StrTable ==
    ("\"a\"" :> Text("a")) @@ ("\"name\"" :> Text("name")) @@
    ("\"age\"" :> Text("age")) @@ ("\"id\"" :> Text("id"))

\* the bytes that are not valid UTF-8, and U+FFFD
InvalidUTF8 == {"<ff>"}
ReplacementChar == "<fffd>"

\* line 361, json.Unmarshal into interface{}: a JSON number becomes a
\* float64 (strconv.ParseFloat): 53 bits of mantissa, round half to even,
\* and an error beyond the float64 range.  Integers below 2^54 here.
Float64(n) ==
    IF n.e > 308 THEN [ok |-> FALSE, v |-> n]
    ELSE IF n.hi < 2^23 \/ n.lo % 2 = 0 THEN [ok |-> TRUE, v |-> n]
    ELSE IF (n.lo \div 2) % 2 = 0 THEN [ok |-> TRUE, v |-> Num(n.hi, n.lo - 1, n.e)]
    ELSE IF n.lo + 1 = 2^30 THEN [ok |-> TRUE, v |-> Num(n.hi + 1, 0, n.e)]
    ELSE [ok |-> TRUE, v |-> Num(n.hi, n.lo + 1, n.e)]

\* the number a decoder keeps: exact, or as encoding/json does
NumConv(exact, n) == IF exact THEN [ok |-> TRUE, v |-> n] ELSE Float64(n)

Fail(ts) == [ok |-> FALSE, v |-> JNull, rest |-> ts]
Ok(v, ts) == [ok |-> TRUE, v |-> v, rest |-> ts]

\* The JSON grammar over lexemes (recursive descent), as the decoder of
\* encoding/json reads it; a repeated object key keeps the last value.
RECURSIVE ParseValue(_, _), ParseElems(_, _, _), ParseMembers(_, _, _)
ParseValue(ts, exact) ==
    IF ts = << >> THEN Fail(ts)
    ELSE LET h == Head(ts)
             r == Tail(ts)
         IN  CASE h = "null" -> Ok(JNull, r)
               [] h = "true" -> Ok(JBool(TRUE), r)
               [] h = "false" -> Ok(JBool(FALSE), r)
               [] h \in DOMAIN NumTable ->
                    LET c == NumConv(exact, NumTable[h])
                    IN  IF c.ok THEN Ok(JNum(c.v), r) ELSE Fail(ts)
               [] h \in DOMAIN StrTable -> Ok(JStr(StrTable[h]), r)
               [] h = "[" ->
                    IF r # << >> /\ Head(r) = "]" THEN Ok(JArr(<< >>), Tail(r))
                    ELSE ParseElems(r, << >>, exact)
               [] h = "{" ->
                    IF r # << >> /\ Head(r) = "}" THEN Ok(JObj(<< >>), Tail(r))
                    ELSE ParseMembers(r, << >>, exact)
               [] OTHER -> Fail(ts)
ParseElems(ts, acc, exact) ==
    LET e == ParseValue(ts, exact)
    IN  IF ~e.ok \/ e.rest = << >> THEN Fail(ts)
        ELSE IF Head(e.rest) = "]" THEN Ok(JArr(Append(acc, e.v)), Tail(e.rest))
        ELSE IF Head(e.rest) = "," THEN ParseElems(Tail(e.rest), Append(acc, e.v), exact)
        ELSE Fail(ts)
ParseMembers(ts, acc, exact) ==
    IF Len(ts) < 3 \/ ts[1] \notin DOMAIN StrTable \/ ts[2] # ":" THEN Fail(ts)
    ELSE LET k == StrTable[ts[1]]
             e == ParseValue(SubSeq(ts, 3, Len(ts)), exact)
             m == (k :> e.v) @@ acc
         IN  IF ~e.ok \/ e.rest = << >> THEN Fail(ts)
             ELSE IF Head(e.rest) = "}" THEN Ok(JObj(m), Tail(e.rest))
             ELSE IF Head(e.rest) = "," THEN ParseMembers(Tail(e.rest), m, exact)
             ELSE Fail(ts)

IsSpace(a) == a = " "
NotSpace(a) == ~IsSpace(a)

\* a whole document: white space between lexemes is skipped and nothing
\* may follow the value
ParseDocument(bytes, exact) ==
    LET p == ParseValue(SelectSeq(bytes, NotSpace), exact)
    IN  IF p.ok /\ p.rest = << >> THEN [ok |-> TRUE, v |-> p.v]
        ELSE [ok |-> FALSE, v |-> JNull]

\* line 361: json.Unmarshal(bodyBytes, &jsonBody)
Unmarshal(bytes) == ParseDocument(bytes, FALSE)

\* json.Marshal of a string: bytes that are not UTF-8 become U+FFFD
ToValidUTF8(s) ==
    [i \in 1..Len(s) |-> IF s[i] \in InvalidUTF8 THEN ReplacementChar ELSE s[i]]

\* line 401, c.JSON: json.Marshal of a value, as the document the client reads
RECURSIVE Marshal(_)
Marshal(x) ==
    CASE x.t = "str" -> JStr(ToValidUTF8(x.v))
      [] x.t = "arr" -> JArr([i \in 1..Len(x.v) |-> Marshal(x.v[i])])
      [] x.t = "obj" -> JObj([k \in DOMAIN x.v |-> Marshal(x.v[k])])
      [] OTHER -> x

(***************************************************************************)
(* The request as net/http and gin hand it to the handler.                 *)
(***************************************************************************)
\* a request body stream: the bytes it still delivers, and whether the read
\* after them fails instead of reporting the end of the stream
Stream(bytes, err) == [nil |-> FALSE, data |-> bytes, err |-> err]

\* Request.MultipartForm is nil until ParseMultipartForm is called; neither
\* the handler nor the middleware of lines 442-448 calls it
NilForm == [nil |-> TRUE, Value |-> << >>, File |-> [nil |-> TRUE, m |-> << >>]]

\* Request.Header: the values of each header name, in the order of arrival
\* of the header lines <<name, value>>
HeaderOf(lines) ==
    [n \in {lines[i][1] : i \in 1..Len(lines)} |->
        LET Named(l) == l[1] = n
            sel == SelectSeq(lines, Named)
        IN  [i \in 1..Len(sel) |-> sel[i][2]]]

\* line 357, c.GetHeader: the first value of the header, or ""
GetHeader(H, name) ==
    IF name \in DOMAIN H /\ Len(H[name]) > 0 THEN H[name][1] ELSE << >>

\* line 313: strings.Join(values, sep)
RECURSIVE Join(_, _)
Join(values, sep) ==
    IF values = << >> THEN << >>
    ELSE IF Len(values) = 1 THEN values[1]
    ELSE values[1] \o sep \o Join(Tail(values), sep)

\* lines 310-314: one entry per header name, its values joined with ", "
\* (faulty variants: a map left nil without headers; the first value only)
FoldHeadersLazy(H) ==
    [nil |-> DOMAIN H = {}, m |-> [k \in DOMAIN H |-> Join(H[k], Text(", "))]]
FoldHeadersFirst(H) == [nil |-> FALSE, m |-> [k \in DOMAIN H |-> H[k][1]]]
FoldHeaders(H) ==
    [nil |-> FALSE, m |-> [k \in DOMAIN H |-> Join(H[k], Text(", "))]]

\* lines 335-343: the records of the files uploaded under one field
FileInfos(files) ==
    JArr([i \in 1..Len(files) |->
        JObj((Text("filename") :> JStr(files[i].Filename)) @@
             (Text("size") :> JNum(Num(0, files[i].Size, 0))) @@
             (Text("header") :>
                 JObj([k \in DOMAIN files[i].Header |->
                     JArr([j \in 1..Len(files[i].Header[k]) |->
                         JStr(files[i].Header[k][j])])])))])

\* lines 322-345: the mapping built from a parsed multipart form; the loop
\* over the files runs last, so a file field replaces a value of its name
\* (faulty variant: the loop over the values runs last)
MultipartBodyValuesLast(form) ==
    JObj([k \in (DOMAIN form.Value) \cup (DOMAIN form.File.m) |->
        IF k \notin DOMAIN form.Value THEN FileInfos(form.File.m[k])
        ELSE IF Len(form.Value[k]) = 1 THEN JStr(form.Value[k][1])
        ELSE JArr([i \in 1..Len(form.Value[k]) |-> JStr(form.Value[k][i])])])
MultipartBody(form) ==
    JObj([k \in (DOMAIN form.Value) \cup (DOMAIN form.File.m) |->
        IF k \in DOMAIN form.File.m THEN FileInfos(form.File.m[k])
        ELSE IF Len(form.Value[k]) = 1 THEN JStr(form.Value[k][1])
        ELSE JArr([i \in 1..Len(form.Value[k]) |-> JStr(form.Value[k][i])])])

\* line 351: bodyBytes, _ = io.ReadAll(c.Request.Body)
ReadAll(st) == [data |-> st.data, err |-> st.err]

\* line 353: c.Request.Body = io.NopCloser(bytes.NewBuffer(bodyBytes))
\* (faulty variant: the body is left drained)
RestoreNothing(bodyBytes) == Stream(<< >>, FALSE)
RestoreBody(bodyBytes) == Stream(bodyBytes, FALSE)

\* lines 349-354: the body is read to its end and put back
ReadBody(st) ==
    IF st.nil THEN [bodyBytes |-> << >>, stream |-> st]
    ELSE [bodyBytes |-> ReadAll(st).data, stream |-> RestoreBody(ReadAll(st).data)]

\* lines 356-373: body and its console rendering, from the raw bytes
\* (faulty variants: the parse error is not checked; an empty body is left nil)
ClassifyNilOnError(contentType, bodyBytes) ==
    IF Contains(contentType, "application/json") /\ Len(bodyBytes) > 0
    THEN [body |-> Unmarshal(bodyBytes).v,
          bodyStr |-> [kind |-> "indented", v |-> Marshal(Unmarshal(bodyBytes).v)]]
    ELSE [body |-> JStr(bodyBytes), bodyStr |-> [kind |-> "text", v |-> bodyBytes]]
ClassifyNilWhenEmpty(contentType, bodyBytes) ==
    IF Len(bodyBytes) = 0
    THEN [body |-> JNull, bodyStr |-> [kind |-> "text", v |-> bodyBytes]]
    ELSE [body |-> JStr(bodyBytes), bodyStr |-> [kind |-> "text", v |-> bodyBytes]]
ClassifyBody(contentType, bodyBytes) ==
    IF Contains(contentType, "application/json") /\ Len(bodyBytes) > 0
       /\ Unmarshal(bodyBytes).ok
    THEN [body |-> Unmarshal(bodyBytes).v,
          bodyStr |-> [kind |-> "indented", v |-> Marshal(Unmarshal(bodyBytes).v)]]
    ELSE [body |-> JStr(bodyBytes), bodyStr |-> [kind |-> "text", v |-> bodyBytes]]

\* Request.URL: the request target as net/http parses it.  An origin-form
\* target (/path?query) leaves Scheme and Host empty; an absolute-form
\* target (http://host/path?query, RFC 7230 section 5.3.2) fills them.
URL(scheme, host, path, query) ==
    [Scheme |-> scheme, Host |-> host, Path |-> path, RawQuery |-> query]

\* line 298, c.Request.URL.String(): [scheme:][//host]path[?query]
URLString(u) ==
    (IF u.Scheme # << >> THEN u.Scheme \o <<":">> ELSE << >>) \o
    (IF u.Scheme # << >> \/ u.Host # << >> THEN <<"//">> \o u.Host ELSE << >>) \o
    u.Path \o
    (IF u.RawQuery # << >> THEN <<"?">> \o u.RawQuery ELSE << >>)

\* Request.Host: the host of an absolute-form target, else the Host header
RequestHost(u, hostHeader) == IF u.Host # << >> THEN u.Host ELSE hostHeader

\* lines 287-299
getFullURL(r) ==
    LET scheme == IF r.TLS THEN Text("https") ELSE Text("http")
        host == IF r.Host = << >> THEN r.RemoteAddr ELSE r.Host
    IN  scheme \o Text("://") \o host \o URLString(r.URL)

\* json.Marshal of a map[string]string: null for a nil map
MarshalMap(h) ==
    IF h.nil THEN JNull ELSE JObj([k \in DOMAIN h.m |-> JStr(ToValidUTF8(h.m[k]))])

\* lines 146-152, 401: the RequestInfo as the JSON document of the response
MarshalRequestInfo(ri) ==
    [full_url |-> JStr(ToValidUTF8(ri.FullURL)),
     method |-> JStr(ToValidUTF8(ri.Method)),
     headers |-> MarshalMap(ri.Headers),
     body |-> Marshal(ri.Body),
     received_time |-> JStr(ToValidUTF8(ri.ReceivedTime))]

\* line 401: http.StatusOK
StatusOK == 200

\* lines 302-402: what echoHandler makes of request r whose body stream is
\* st, at time now: the response, the console rendering, the body stream
\* (faulty variant: the error of io.ReadAll, line 351, ends the request)
echoHandlerStrict(r, st, now) ==
    LET headers == FoldHeaders(r.Header)
        withFiles == ~r.MultipartForm.nil /\ ~r.MultipartForm.File.nil
        rd == ReadBody(st)
        cls == IF withFiles
               THEN [body |-> MultipartBody(r.MultipartForm),
                     bodyStr |-> [kind |-> "text",
                                  v |-> Text("[Multipart Form Data with Files]")]]
               ELSE ClassifyBody(GetHeader(r.Header, "Content-Type"), rd.bodyBytes)
        reqInfo == [FullURL |-> getFullURL(r),
                    Method |-> r.Method,
                    Headers |-> headers,
                    Body |-> cls.body,
                    ReceivedTime |-> now]
    IN  IF ~withFiles /\ ~st.nil /\ ReadAll(st).err
        THEN [resp |-> [status |-> 400, json |-> << >>],
              console |-> [kind |-> "text", v |-> << >>],
              stream |-> rd.stream]
        ELSE [resp |-> [status |-> StatusOK, json |-> MarshalRequestInfo(reqInfo)],
              console |-> cls.bodyStr,
              stream |-> IF withFiles THEN st ELSE rd.stream]
echoHandler(r, st, now) ==
    LET headers == FoldHeaders(r.Header)
        withFiles == ~r.MultipartForm.nil /\ ~r.MultipartForm.File.nil
        rd == ReadBody(st)
        cls == IF withFiles
               THEN [body |-> MultipartBody(r.MultipartForm),
                     bodyStr |-> [kind |-> "text",
                                  v |-> Text("[Multipart Form Data with Files]")]]
               ELSE ClassifyBody(GetHeader(r.Header, "Content-Type"), rd.bodyBytes)
        reqInfo == [FullURL |-> getFullURL(r),
                    Method |-> r.Method,
                    Headers |-> headers,
                    Body |-> cls.body,
                    ReceivedTime |-> now]
    IN  [resp |-> [status |-> StatusOK, json |-> MarshalRequestInfo(reqInfo)],
         console |-> cls.bodyStr,
         stream |-> IF withFiles THEN st ELSE rd.stream]

(***************************************************************************)
(* The requests of the model.                                              *)
(***************************************************************************)
Methods == {"GET", "POST"}
\* the two routes (lines 451-452), in origin form and in absolute form
URLs ==
    { URL(<< >>, << >>, <<"/webhook">>, << >>),
      URL(<< >>, << >>, <<"/eventbus">>, <<"x=1">>),
      URL(<<"http">>, <<"example.com:38438">>, <<"/webhook">>, << >>) }
\* an HTTP/1.0 request may carry no Host
Hosts == {<< >>, <<"example.com:38438">>}
RemoteAddrs == {<<"10.0.0.7:51234">>}
\* server.Serve (line 489) serves plain HTTP: Request.TLS is always nil
TLSStates == {FALSE}
Times == {<<"2026-11-04 07:00:00">>}

CTJson == <<"application/json">>
CTJsonCharset == <<"application/json", "; charset=utf-8">>
CTText == <<"text/plain">>
CTMultipart == <<"multipart/form-data", "; boundary=B">>
ContentTypeLines ==
    {<< >>} \cup {<< <<"Content-Type", ct>> >> :
                     ct \in {CTJson, CTJsonCharset, CTText, CTMultipart}}

\* most values one header name is sent with
MaxValues == 2
TagValues == {Text("a"), Text("b")}
TagLines ==
    UNION {[1..n -> {<<"X-Tag", v>> : v \in TagValues}] : n \in 0..MaxValues}

\* a file upload as curl -F sends it (README, test example 3)
Uploads ==
    {[field |-> Text("file"), filename |-> Text("report.txt"),
      data |-> <<"<the 42 bytes of report.txt>">>, size |-> 42]}
EncodeMultipart(u) ==
    <<"--B", "Content-Disposition: form-data; name=">> \o u.field \o
    <<"; filename=">> \o u.filename \o <<"<crlf><crlf>">> \o u.data \o <<"--B--">>

BodySamples ==
    { <<"{", "\"name\"", ":", "\"a\"", ",", "\"age\"", ":", "25", "}">>,
      <<"[", "9007199254740993", ",", "null", "]">>,
      <<"{", "\"id\"", ":", "9007199254740995", "}">>,
      <<"null">>, <<"false">>, <<"9007199254740992">>, <<"1e400">>,
      <<" ", "25", " ">>, <<"[", "]", "true">>,
      <<"{", "not json">>, <<"hello", "<ff>">> }
    \cup {EncodeMultipart(u) : u \in Uploads}

\* the samples and everything a broken transfer leaves of them
Bodies == UNION {{SubSeq(b, 1, n) : n \in 0..Len(b)} : b \in BodySamples}

(***************************************************************************)
(* One connection: a request arrives, echoHandler answers it, and whatever *)
(* runs after the handler reads the request body once more.                *)
(***************************************************************************)
Receive ==
    /\ hpc = "idle"
    /\ pc["main"] = "serving"
    /\ \E m \in Methods, u \in URLs, h \in Hosts, a \in RemoteAddrs, tls \in TLSStates,
          ct \in ContentTypeLines, tags \in TagLines, b \in Bodies, e \in BOOLEAN :
          /\ req' = [Method |-> Text(m), URL |-> u, Host |-> RequestHost(u, h),
                     RemoteAddr |-> a,
                     TLS |-> tls, lines |-> ct \o tags, Header |-> HeaderOf(ct \o tags),
                     MultipartForm |-> NilForm, Body |-> Stream(b, e)]
          /\ stream' = Stream(b, e)
    /\ hpc' = "received"
    /\ UNCHANGED <<resp, console, replay, portVars, concVars>>

Handle ==
    /\ hpc = "received"
    /\ \E now \in Times :
          LET out == echoHandler(req, stream, now)
          IN  /\ resp' = out.resp
              /\ console' = out.console
              /\ stream' = out.stream
    /\ hpc' = "handled"
    /\ UNCHANGED <<req, replay, portVars, concVars>>

DownstreamRead ==
    /\ hpc = "handled"
    /\ replay' = ReadAll(stream).data
    /\ stream' = Stream(<< >>, FALSE)
    /\ hpc' = "replayed"
    /\ UNCHANGED <<req, resp, console, portVars, concVars>>

Finish ==
    /\ hpc = "replayed"
    /\ hpc' = "idle"
    /\ req' = << >>
    /\ resp' = << >>
    /\ console' = << >>
    /\ stream' = << >>
    /\ replay' = << >>
    /\ UNCHANGED <<portVars, concVars>>

(***************************************************************************)
(* echoHandler on a request whose multipart form has been parsed (lines    *)
(* 320-346).  Request.ParseMultipartForm fills Request.MultipartForm with  *)
(* the values of the fields and the headers of the files, each in the      *)
(* order of the parts, and consumes the body.                              *)
(***************************************************************************)
\* most files one field is sent with
MaxFiles == 2

FileHeaders ==
    { [Filename |-> Text("report.txt"), Size |-> 42,
       Header |-> (Text("Content-Type") :> <<Text("text/plain")>>)],
      [Filename |-> Text("empty.bin"), Size |-> 0,
       Header |-> (Text("Content-Type") :> <<Text("application/octet-stream")>>)] }

\* the mappings from some of the names to non-empty sequences over vals
FieldMaps(names, vals, max) ==
    UNION {[D -> UNION {[1..n -> vals] : n \in 1..max}] : D \in SUBSET names}

\* the name file is sent both as a plain field and as a file field
ParsedForms ==
    { [nil |-> FALSE, Value |-> v, File |-> [nil |-> FALSE, m |-> f]] :
        v \in FieldMaps({Text("note"), Text("file")}, TagValues, MaxValues),
        f \in FieldMaps({Text("file"), Text("doc")}, FileHeaders, MaxFiles) }

ReceiveParsed ==
    /\ hpc = "idle"
    /\ pc["main"] = "serving"
    /\ \E form \in ParsedForms :
          req' = [Method |-> Text("POST"),
                  URL |-> URL(<< >>, << >>, <<"/webhook">>, << >>),
                  Host |-> <<"example.com:38438">>, RemoteAddr |-> <<"10.0.0.7:51234">>, TLS |-> FALSE,
                  lines |-> << <<"Content-Type", CTMultipart>> >>,
                  Header |-> HeaderOf(<< <<"Content-Type", CTMultipart>> >>),
                  MultipartForm |-> form, Body |-> Stream(<< >>, FALSE)]
    /\ stream' = Stream(<< >>, FALSE)
    /\ hpc' = "received"
    /\ UNCHANGED <<resp, console, replay, portVars, concVars>>

(***************************************************************************)
(* Concurrent requests: net/http runs the handler of each connection on a  *)
(* goroutine of its own.                                                   *)
(***************************************************************************)
Handlers == {"g1", "g2"}

ConcIdle ==
    /\ gpc = [g \in Handlers |-> "idle"]
    /\ conn = [g \in Handlers |-> << >>]
    /\ frames = [g \in Handlers |-> << >>]
    /\ written = [g \in Handlers |-> << >>]
    /\ sink = << >>

\* lines 311, 316-317, 349, 357, 360, 377, 380: headers, body, bodyStr,
\* bodyBytes, contentType, jsonBody, fullURL and reqInfo are local variables:
\* every invocation has its own
\* (faulty variant: package-level variables, the same for every invocation)
FrameShared(g) == CHOOSE h \in Handlers : TRUE
Frame(g) == g

\* the requests that arrive at the same time: a GET without body, a JSON
\* POST, and a JSON POST cut short by a failing read
ConcRequests ==
    { [Method |-> Text("GET"), URL |-> URL(<< >>, << >>, <<"/webhook">>, << >>),
       Host |-> <<"example.com:38438">>, RemoteAddr |-> <<"10.0.0.7:51234">>,
       TLS |-> FALSE, lines |-> << <<"X-Tag", Text("a")>> >>,
       Header |-> HeaderOf(<< <<"X-Tag", Text("a")>> >>),
       MultipartForm |-> NilForm, Body |-> Stream(<< >>, FALSE)],
      [Method |-> Text("POST"), URL |-> URL(<< >>, << >>, <<"/eventbus">>, <<"x=1">>),
       Host |-> <<"example.com:38438">>, RemoteAddr |-> <<"10.0.0.8:40000">>,
       TLS |-> FALSE, lines |-> << <<"Content-Type", CTJson>> >>,
       Header |-> HeaderOf(<< <<"Content-Type", CTJson>> >>),
       MultipartForm |-> NilForm,
       Body |-> Stream(<<"{", "\"name\"", ":", "\"a\"", ",", "\"age\"", ":", "25", "}">>,
                       FALSE)],
      [Method |-> Text("POST"), URL |-> URL(<< >>, << >>, <<"/webhook">>, << >>),
       Host |-> << >>, RemoteAddr |-> <<"10.0.0.9:40001">>,
       TLS |-> FALSE, lines |-> << <<"Content-Type", CTJson>> >>,
       Header |-> HeaderOf(<< <<"Content-Type", CTJson>> >>),
       MultipartForm |-> NilForm, Body |-> Stream(<<"{", "not json">>, TRUE)] }

\* line 190-193, logPrint: log.Print writes one entry to the log under the
\* logger's mutex
LogAppend(log, entry) == Append(log, entry)

\* lines 451-452: the server hands a request to a goroutine running the handler
Accept(g) ==
    /\ gpc[g] = "idle"
    /\ pc["main"] = "serving"
    /\ \E r \in ConcRequests : conn' = [conn EXCEPT ![g] = r]
    /\ gpc' = [gpc EXCEPT ![g] = "incoming"]
    /\ UNCHANGED <<frames, written, sink, portVars, echoVars>>

\* lines 304-308: the block "Incoming Request"
LogIncoming(g) ==
    /\ gpc[g] = "incoming"
    /\ sink' = LogAppend(sink, [by |-> g, block |-> "incoming",
                                text |-> conn[g].Method \o conn[g].RemoteAddr])
    /\ gpc' = [gpc EXCEPT ![g] = "logged"]
    /\ UNCHANGED <<conn, frames, written, portVars, echoVars>>

\* lines 310-386: headers, body and reqInfo are built in the locals, the
\* body stream of the request is put back
Build(g) ==
    /\ gpc[g] = "logged"
    /\ \E now \in Times :
          /\ frames' = [frames EXCEPT
                           ![Frame(g)] = echoHandler(conn[g], conn[g].Body, now)]
          /\ conn' = [conn EXCEPT
                         ![g].Body = echoHandler(conn[g], conn[g].Body, now).stream]
    /\ gpc' = [gpc EXCEPT ![g] = "built"]
    /\ UNCHANGED <<written, sink, portVars, echoVars>>

\* lines 389-398: the block "Request Details"
LogDetails(g) ==
    /\ gpc[g] = "built"
    /\ sink' = LogAppend(sink, [by |-> g, block |-> "details",
                                text |-> frames[Frame(g)].console.v])
    /\ gpc' = [gpc EXCEPT ![g] = "printed"]
    /\ UNCHANGED <<conn, frames, written, portVars, echoVars>>

\* line 401: c.JSON(http.StatusOK, reqInfo)
Respond(g) ==
    /\ gpc[g] = "printed"
    /\ written' = [written EXCEPT ![g] = frames[Frame(g)].resp]
    /\ gpc' = [gpc EXCEPT ![g] = "done"]
    /\ UNCHANGED <<conn, frames, sink, portVars, echoVars>>

Run(g) ==
    \/ Accept(g)
    \/ LogIncoming(g)
    \/ Build(g)
    \/ LogDetails(g)
    \/ Respond(g)

(***************************************************************************)
(* Initial states of the start-up.                                         *)
(***************************************************************************)
ValidPorts == 1..maxPort

\* the values of PRISM_PORT: unset, plain ports (the last port, and the
\* first of the last maxAttempts ports), a port within white space or before
\* other text, text without a leading digit, and numbers that are no port
EnvValues ==
    { << >>,
      <<"6", "5", "4", "3", "6">>,
      <<"6", "5", "5", "3", "5">>,
      <<" ", "8", "0", "8", "0", " ">>,
      <<"6", "5", "5", "3", "4", "a", "b", "c">>,
      <<"a", "b", "c">>,
      <<"-", "1">>,
      <<"0">>,
      <<"6", "5", "5", "3", "6">>,
      <<"9", "9", "9", "9", "9", "9", "9", "9", "9", "9",
        "9", "9", "9", "9", "9", "9", "9", "9", "9", "9">> }

\* lengths of the run of occupied ports that begins at the start port
RunLengths == (0..MaxRun) \cup ((maxAttempts - 1)..(maxAttempts + 1))

Singletons(s, max) == {{}} \cup {{s + i} : i \in 0..max}

EchoIdle ==
    /\ hpc = "idle"
    /\ req = << >>
    /\ resp = << >>
    /\ console = << >>
    /\ stream = << >>
    /\ replay = << >>

\* main has just started; the foreign sockets of the host sit around the
\* port its PRISM_PORT names
Init ==
    /\ \E e \in EnvValues, r \in RunLengths :
         LET s == getPortFromEnv(e)
         IN  \E hole \in Singletons(s, MaxHole), fault \in Singletons(s, MaxFault) :
                /\ env = e
                /\ faulty = fault \cap ValidPorts
                /\ occupied = (((s..(s + r - 1)) \cap ValidPorts) \ hole) \ fault
    /\ startPort = [p \in Procs |-> 0]
    /\ port = [p \in Procs |-> 0]
    /\ pc = [p \in Procs |-> IF p = "main" THEN "start" ELSE "idle"]
    /\ attempts = [p \in Procs |-> 0]
    /\ probe = [p \in Procs |-> {}]
    /\ probes = [p \in Procs |-> << >>]
    /\ retPort = [p \in Procs |-> 0]
    /\ retErr = [p \in Procs |-> ErrNil]
    /\ listener = [p \in Procs |-> {}]
    /\ exitCode = [p \in Procs |-> 0]
    /\ afterBind = FALSE
    /\ EchoIdle
    /\ ConcIdle

Next ==
    \/ \E p \in Procs : Step(p)
    \/ RivalStart

Spec == Init /\ [][Next]_vars

\* main runs on its own goroutine from start to exit or Serve
FairSpec == Spec /\ WF_vars(Step("main"))

\* the server listens on the default port and takes requests
Serving ==
    /\ occupied = {}
    /\ faulty = {}
    /\ env = << >>
    /\ pc = [p \in Procs |-> IF p = "main" THEN "serving" ELSE "idle"]
    /\ startPort = [p \in Procs |-> IF p = "main" THEN DefaultPort ELSE 0]
    /\ port = [p \in Procs |-> IF p = "main" THEN DefaultPort ELSE 0]
    /\ attempts = [p \in Procs |-> IF p = "main" THEN 1 ELSE 0]
    /\ probe = [p \in Procs |-> {}]
    /\ probes = [p \in Procs |->
                    IF p = "main" THEN <<Probed(DefaultPort, NoError)>> ELSE << >>]
    /\ retPort = [p \in Procs |-> IF p = "main" THEN DefaultPort ELSE 0]
    /\ retErr = [p \in Procs |-> ErrNil]
    /\ listener = [p \in Procs |-> IF p = "main" THEN {DefaultPort} ELSE {}]
    /\ exitCode = [p \in Procs |-> 0]
    /\ afterBind = FALSE

InitEcho == Serving /\ EchoIdle /\ ConcIdle

NextEcho ==
    \/ Receive
    \/ Handle
    \/ DownstreamRead
    \/ Finish

SpecEcho == InitEcho /\ [][NextEcho]_vars

\* the handlers of two connections, interleaved
NextConc == \E g \in Handlers : Run(g)

SpecConc == InitEcho /\ [][NextConc]_vars

\* the handler on requests whose multipart form has been parsed
NextForm ==
    \/ ReceiveParsed
    \/ Handle
    \/ DownstreamRead
    \/ Finish

SpecForm == InitEcho /\ [][NextForm]_vars

(***************************************************************************)
(* Properties of the port scan.                                            *)
(***************************************************************************)
\* findAvailablePort has returned to main
Returned(p) == pc[p] \in {"found", "serving", "failed", "exited"}
\* ... with a port and a nil error
Succeeded(p) == Returned(p) /\ retErr[p].kind = "nil"

\* C1 (port monotonicity): whenever findAvailablePort(p) returns a port q,
\* p <= q <= 65535; it never returns a port below the start port.
C1_PortMonotonic ==
    \A p \in Procs :
        Succeeded(p) => startPort[p] <= retPort[p] /\ retPort[p] <= maxPort

\* a scan that skipped occupied ports has returned a port above its start
C1_Witness ==
    /\ Succeeded("main")
    /\ retPort["main"] > startPort["main"]
    /\ startPort["main"] \in occupied

\* the maxAttempts consecutive ports that begin at p's start port are all
\* held by foreign sockets (each bind fails with a conflict-class error)
Blocked(p) ==
    \A c \in startPort[p]..(startPort[p] + maxAttempts - 1) : c \in occupied

\* C2 (attempt bound): if the 100 consecutive ports starting at p are all
\* occupied, findAvailablePort(p) makes no more than 100 attempts, never
\* returns a port, and terminates with the exhausted-attempts failure.
C2_AttemptBound ==
    /\ [](Blocked("main") =>
             /\ attempts["main"] <= maxAttempts
             /\ ~Succeeded("main")
             /\ pc["main"] # "opened")
    /\ (Blocked("main") ~>
             (pc["main"] \in {"failed", "exited"} /\ retErr["main"] = ErrExhausted))

\* the scan has given up after 100 conflicts on 100 occupied ports
C2_Witness ==
    /\ Blocked("main")
    /\ pc["main"] = "failed"
    /\ attempts["main"] = maxAttempts
    /\ port["main"] = startPort["main"] + maxAttempts
    /\ retErr["main"] = ErrExhausted

\* C3 as stated (port exclusivity): after resolve(p) has returned q, a second
\* resolve(q) by a competing process returns some q' > q.
C3_SecondResolveSkips ==
    Succeeded("rival") => retPort["rival"] > retPort["main"]

\* C3 as amended: no probe ever succeeds on a port that a foreign socket,
\* another probe or another listener holds at that moment; and once main's
\* listener holds q, a resolve(q) of a competing process that returns a port
\* returns some q' > q.
C3_Exclusive ==
    /\ \A p \in Procs : \A c \in probe[p] :
          /\ c \notin occupied
          /\ \A q \in Procs \ {p} : c \notin probe[q] \cup listener[q]
          /\ c \notin listener[p]
    /\ (afterBind /\ Succeeded("rival")) => retPort["rival"] > retPort["main"]

\* the rival, started while main listens on q, has resolved a higher port
C3_Witness ==
    /\ afterBind
    /\ pc["main"] = "serving"
    /\ Succeeded("rival")
    /\ startPort["rival"] \in listener["main"]
    /\ retPort["rival"] > startPort["rival"]

(***************************************************************************)
(* Properties of the request handling.                                     *)
(***************************************************************************)
\* the handler has answered the request
Handled == hpc \in {"handled", "replayed"}
\* the body bytes the request arrived with
Sent == req.Body.data
ContentType == GetHeader(req.Header, "Content-Type")
IsJSONRequest == Contains(ContentType, "application/json")
\* the JSON document the body is, when it is one, with its numbers exact
SentDocument == ParseDocument(Sent, TRUE)

\* C4 (multipart metadata-only): a request that uploads a file under field f
\* is answered with a body mapping whose entry f is the sequence of the
\* records {filename, size, header} of the files, and the bytes of the file
\* are nowhere in the response.
C4_MetadataOnly ==
    \A u \in Uploads :
        (Handled /\ Sent = EncodeMultipart(u) /\ Contains(ContentType, "multipart/form-data"))
        => LET b == resp.json.body
           IN  /\ b.t = "str" => Range(u.data) \cap Range(b.v) = {}
               /\ b.t = "obj"
               /\ u.field \in DOMAIN b.v
               /\ b.v[u.field].t = "arr"
               /\ Len(b.v[u.field].v) = 1
               /\ b.v[u.field].v[1].v[Text("filename")] = JStr(u.filename)
               /\ b.v[u.field].v[1].v[Text("size")] = JNum(Num(0, u.size, 0))
               /\ Text("header") \in DOMAIN b.v[u.field].v[1].v

\* C5 (JSON round-trip): a valid JSON document d sent with a Content-Type
\* containing application/json and a non-empty body comes back as the body
\* field, deep-equal to d.
C5_RoundTrip ==
    (Handled /\ IsJSONRequest /\ Sent # << >> /\ req.MultipartForm.nil /\ SentDocument.ok)
    => resp.json.body = SentDocument.v

\* C6 as stated (malformed JSON fallback): a JSON request whose non-empty
\* body is not valid JSON gets a 200 whose body field is the string equal to
\* the raw body.
C6_RawFallback ==
    (Handled /\ IsJSONRequest /\ Sent # << >> /\ ~SentDocument.ok)
    => /\ resp.status = 200
       /\ resp.json.body = JStr(Sent)

\* C6 as amended: ... is the string of the raw body in which every byte that
\* is not valid UTF-8 is replaced by U+FFFD; for a body that is valid UTF-8
\* it is the raw body itself.
C6_Fallback ==
    (Handled /\ IsJSONRequest /\ Sent # << >> /\ ~SentDocument.ok)
    => /\ resp.status = 200
       /\ resp.json.body.t = "str"
       /\ Len(resp.json.body.v) = Len(Sent)
       /\ \A i \in 1..Len(Sent) :
             resp.json.body.v[i] =
                 IF Sent[i] \in InvalidUTF8 THEN ReplacementChar ELSE Sent[i]

\* the body "{not json" of a JSON request has come back as a string
C6_Witness ==
    /\ Handled
    /\ IsJSONRequest
    /\ Sent = <<"{", "not json">>
    /\ resp.status = 200
    /\ resp.json.body = JStr(<<"{", "not json">>)

\* C7 (empty body): a request of zero body bytes, whatever its method and
\* Content-Type, is answered with the body field "" (a string, not null).
C7_EmptyBody ==
    (Handled /\ Sent = << >>) => resp.json.body = JStr(<< >>)

\* a POST with Content-Type application/json and no body was answered with ""
C7_Witness ==
    /\ Handled
    /\ Sent = << >>
    /\ IsJSONRequest
    /\ req.Method = Text("POST")
    /\ resp.json.body = JStr(<< >>)

\* C8 as stated (presence): in every response the headers field and the body
\* field are present and not null.
C8_Presence ==
    Handled =>
        /\ {"headers", "body"} \subseteq DOMAIN resp.json
        /\ resp.json.headers.t # "null"
        /\ resp.json.body.t # "null"

\* C8 as amended: headers and body are always present, headers is never
\* null, and body is null only for a JSON request whose document is the
\* literal null.
C8_PresenceAmended ==
    Handled =>
        /\ {"headers", "body"} \subseteq DOMAIN resp.json
        /\ resp.json.headers.t = "obj"
        /\ resp.json.body.t = "null" =>
              /\ IsJSONRequest
              /\ SentDocument.ok
              /\ SentDocument.v = JNull

\* a request without header lines and without body: {} and ""
C8_Witness ==
    /\ Handled
    /\ req.lines = << >>
    /\ Sent = << >>
    /\ resp.json.headers = JObj(<< >>)
    /\ resp.json.body = JStr(<< >>)

\* the values a header name arrived with, in the order of the header lines
RECURSIVE ArrivedValues(_, _)
ArrivedValues(lines, n) ==
    IF lines = << >> THEN << >>
    ELSE (IF Head(lines)[1] = n THEN <<Head(lines)[2]>> ELSE << >>)
         \o ArrivedValues(Tail(lines), n)
RECURSIVE CommaJoined(_)
CommaJoined(vs) ==
    IF Len(vs) = 1 THEN vs[1] ELSE vs[1] \o <<", ">> \o CommaJoined(Tail(vs))

JSONTypes == {"null", "bool", "num", "str", "arr", "obj"}

\* C11 (no request-time failure): every request the handler is given,
\* whatever its method, headers, content type and body bytes, and also when
\* the read of the body fails part-way, is answered with status 200 and a
\* JSON document of the five fields of the RequestInfo; no other status.
C11_NoRequestFailure ==
    Handled =>
        /\ resp.status = 200
        /\ DOMAIN resp.json = {"full_url", "method", "headers", "body", "received_time"}
        /\ resp.json.full_url.t = "str"
        /\ resp.json.method = JStr(req.Method)
        /\ resp.json.headers.t = "obj"
        /\ resp.json.body.t \in JSONTypes
        /\ resp.json.received_time.t = "str"

\* a JSON body cut short by a failing read was answered with 200 and the
\* bytes that had arrived, as a string
C11_Witness ==
    /\ Handled
    /\ req.Body.err
    /\ IsJSONRequest
    /\ Sent = <<"{", "\"name\"", ":">>
    /\ resp.status = 200
    /\ resp.json.body = JStr(Sent)

\* the path and the query of the request target
PathAndQuery(u) ==
    u.Path \o (IF u.RawQuery # << >> THEN <<"?">> \o u.RawQuery ELSE << >>)

\* C12 (URL reconstruction): full_url is scheme "://" host path-and-query,
\* the scheme being https exactly when the connection has TLS state and
\* http otherwise, the host being the request's Host, or the remote peer
\* address exactly when Host is empty.
C12_URLReconstruction ==
    Handled =>
        resp.json.full_url =
            JStr((IF req.TLS THEN Text("https") ELSE Text("http")) \o Text("://") \o
                 (IF req.Host = << >> THEN req.RemoteAddr ELSE req.Host) \o
                 PathAndQuery(req.URL))

(***************************************************************************)
(* Further properties of the start-up.                                     *)
(***************************************************************************)
\* main has read its start port from the environment
Configured == pc["main"] # "start"

\* a plain decimal integer: one digit or more and nothing else
PlainDecimal(t) == t # << >> /\ \A i \in 1..Len(t) : ~NotDigit(t[i])
\* the value is malformed: not a plain decimal integer, even with the white
\* space around it taken off
Malformed(t) == ~PlainDecimal(TrimSpace(t))
\* whether the plain decimal integer t is one of 1..65535
IsPortNumber(t) ==
    /\ Len(StripZeros(t)) <= 5
    /\ NumeralValue(StripZeros(t), 0) \in 1..maxPort

RECURSIVE DropBlanks(_)
DropBlanks(t) ==
    IF t # << >> /\ Head(t) \in WhiteSpace THEN DropBlanks(Tail(t)) ELSE t
RECURSIVE TakeDigits(_)
TakeDigits(t) ==
    IF t = << >> \/ NotDigit(Head(t)) THEN << >>
    ELSE <<Head(t)>> \o TakeDigits(Tail(t))
\* the digits a value begins with, white space in front of them aside
LeadingDigits(t) == TakeDigits(DropBlanks(t))

\* main was not ended by the reading of the setting
NotAborted == exitCode["main"] # 0 => Returned("main")

\* C13 as stated (start-port fallback): a value of PRISM_PORT that is not a
\* plain decimal integer, or is one outside 1..65535, makes getPortFromEnv
\* return the default port; startup is never aborted and the port returned
\* is always within 1..65535.
C13_FallbackToDefault ==
    Configured =>
        /\ (Malformed(env) \/ ~IsPortNumber(TrimSpace(env)))
              => startPort["main"] = DefaultPort
        /\ startPort["main"] \in 1..maxPort
        /\ NotAborted

\* C13 as amended: getPortFromEnv returns the number the value begins with
\* (white space around the value aside) when that number is within
\* 1..65535, whatever follows the digits, and the default port in every
\* other case; startup is never aborted and the port returned is always
\* within 1..65535.
C13_FallbackAmended ==
    Configured =>
        /\ startPort["main"] =
              IF LeadingDigits(env) # << >> /\ IsPortNumber(LeadingDigits(env))
              THEN NumeralValue(StripZeros(LeadingDigits(env)), 0)
              ELSE DefaultPort
        /\ startPort["main"] \in 1..maxPort
        /\ NotAborted

\* with PRISM_PORT=65536 main started on the default port and serves
C13_Witness ==
    /\ env = <<"6", "5", "5", "3", "6">>
    /\ startPort["main"] = DefaultPort
    /\ pc["main"] = "serving"
    /\ listener["main"] = {DefaultPort}

\* C14 (exhaustion report): when the loop of findAvailablePort ends without
\* a port, after 100 attempts or because the candidate passed 65535 after
\* fewer, the failure reports the number of ports that were scanned.
C14_ExhaustionReport ==
    \A p \in Procs :
        (pc[p] \in {"failed", "exited"} /\ retErr[p].kind = "exhausted")
        => retErr[p].n = Len(probes[p])

\* C15 (non-retryable bind errors): a probe that fails with an error that is
\* not conflict-class is the last probe of the scan: findAvailablePort has
\* returned the failure naming that port, no port, and holds no socket.
C15_NonRetryable ==
    \A p \in Procs : \A i \in 1..Len(probes[p]) :
        (probes[p][i].class = "other" \/ probes[p][i].port \in faulty)
        => /\ probes[p][i].class = "other"
           /\ i = Len(probes[p])
           /\ attempts[p] = i
           /\ pc[p] \in {"failed", "exited"}
           /\ retPort[p] = 0
           /\ retErr[p] = ErrChecking(probes[p][i].port)
           /\ probe[p] = {}
           /\ listener[p] = {}

\* after a conflict on the start port the next bind failed for another
\* reason and the scan ended there
C15_Witness ==
    /\ pc["main"] = "failed"
    /\ Len(probes["main"]) = 2
    /\ probes["main"][1].class = "conflict"
    /\ probes["main"][2].class = "other"
    /\ retErr["main"] = ErrChecking(startPort["main"] + 1)
    /\ startPort["main"] + 2 \in occupied

\* C16 (probe sequence): findAvailablePort(p) probes p, p+1, p+2, ... one
\* after the other, at most 100 ports and none above 65535; a port it
\* returns is the last port probed, the first whose bind succeeded, every
\* port before it having failed with a conflict-class error.
C16_ProbeSequence ==
    \A p \in Procs :
        /\ Len(probes[p]) <= maxAttempts
        /\ Len(probes[p]) = attempts[p]
        /\ \A i \in 1..Len(probes[p]) :
              /\ probes[p][i].port = startPort[p] + i - 1
              /\ probes[p][i].port <= maxPort
              /\ i < Len(probes[p]) => probes[p][i].class = "conflict"
        /\ Succeeded(p) =>
              /\ probes[p] # << >>
              /\ probes[p][Len(probes[p])] = [port |-> retPort[p], class |-> "ok"]

\* three ports were occupied and the fourth was returned
C16_Witness ==
    /\ Succeeded("main")
    /\ Len(probes["main"]) = 4
    /\ retPort["main"] = startPort["main"] + 3
    /\ \A i \in 1..3 : probes["main"][i].class = "conflict"

\* C17 (probe-then-release): on every return of findAvailablePort, with a
\* port, with a bind error or after exhaustion, the resolver holds no open
\* socket; a returned port is held by no socket of the process until main
\* binds it.
C17_ProbeReleased ==
    \A p \in Procs :
        /\ pc[p] \in {"found", "failed", "exited", "serving"} => probe[p] = {}
        /\ pc[p] = "found" => retPort[p] \notin probe[p] \cup listener[p]
        /\ pc[p] = "opened" => probe[p] = {port[p]}
        /\ pc[p] = "scan" => probe[p] = {}

\* findAvailablePort has returned a port that nobody holds
C17_Witness ==
    /\ pc["main"] = "found"
    /\ retErr["main"] = ErrNil
    /\ probes["main"][Len(probes["main"])].class = "ok"
    /\ retPort["main"] \notin HeldPorts

\* C18 (startup order, no re-scan): main resolves the port once, binds once,
\* on the port findAvailablePort returned, and serves only then; when the
\* bind fails, the port having been taken after the probe released it, main
\* exits with a non-zero status without scanning again, and so it does on
\* an error of the scan, before any request is handled.
C18_StartupOrder ==
    /\ [](\A p \in Procs :
            /\ pc[p] = "serving" =>
                  /\ retErr[p] = ErrNil
                  /\ listener[p] = {retPort[p]}
            /\ pc[p] # "serving" => listener[p] = {}
            /\ pc[p] = "exited" <=> exitCode[p] # 0
            /\ hpc # "idle" => pc["main"] = "serving")
    /\ [][\A p \in Procs :
            /\ Returned(p) =>
                  /\ probes'[p] = probes[p]
                  /\ attempts'[p] = attempts[p]
                  /\ retPort'[p] = retPort[p]
                  /\ retErr'[p] = retErr[p]
            /\ (pc[p] = "found" /\ pc'[p] # "found") =>
                  \/ pc'[p] = "serving" /\ listener'[p] = {retPort[p]}
                  \/ pc'[p] = "exited" /\ retPort[p] \in HeldPorts \cup faulty
            /\ (pc[p] = "failed" /\ pc'[p] # "failed") => pc'[p] = "exited"
            /\ pc[p] \in {"serving", "exited"} => pc'[p] = pc[p]]_vars

\* the rival took the port main had resolved, and main exited on its bind
C18_Witness ==
    /\ pc["main"] = "exited"
    /\ exitCode["main"] = 1
    /\ retErr["main"] = ErrNil
    /\ listener["main"] = {}
    /\ retPort["main"] \in probe["rival"] \cup listener["rival"]
    /\ Len(probes["main"]) = attempts["main"]

(***************************************************************************)
(* Properties of the multipart branch.                                     *)
(***************************************************************************)
\* the request went through the branch of lines 320-346
WithFiles == ~req.MultipartForm.nil /\ ~req.MultipartForm.File.nil
FormValues == req.MultipartForm.Value
FormFiles == req.MultipartForm.File.m

\* C19 (multipart mapping shape): in the branch of a multipart form with
\* files, a field with exactly one value maps to that string, a field with
\* another number of values to the sequence of its values in order, a file
\* field to the sequence of one record per uploaded file in order, and a
\* name that is both a field and a file field to the file records.
C19_MultipartShape ==
    (Handled /\ WithFiles) =>
        /\ resp.json.body.t = "obj"
        /\ DOMAIN resp.json.body.v = (DOMAIN FormValues) \cup (DOMAIN FormFiles)
        /\ \A k \in DOMAIN FormFiles :
              /\ resp.json.body.v[k].t = "arr"
              /\ Len(resp.json.body.v[k].v) = Len(FormFiles[k])
              /\ \A i \in 1..Len(FormFiles[k]) :
                    /\ resp.json.body.v[k].v[i].t = "obj"
                    /\ resp.json.body.v[k].v[i].v[Text("filename")]
                          = JStr(FormFiles[k][i].Filename)
                    /\ resp.json.body.v[k].v[i].v[Text("size")]
                          = JNum(Num(0, FormFiles[k][i].Size, 0))
        /\ \A k \in (DOMAIN FormValues) \ (DOMAIN FormFiles) :
              IF Len(FormValues[k]) = 1
              THEN resp.json.body.v[k] = JStr(FormValues[k][1])
              ELSE /\ resp.json.body.v[k].t = "arr"
                   /\ Len(resp.json.body.v[k].v) = Len(FormValues[k])
                   /\ \A i \in 1..Len(FormValues[k]) :
                         resp.json.body.v[k].v[i] = JStr(FormValues[k][i])

\* note=a, note=b, file=a and two files under file: the two notes as a
\* sequence, and under file the two file records
C19_Witness ==
    /\ Handled
    /\ WithFiles
    /\ FormValues = (Text("note") :> <<Text("a"), Text("b")>>) @@
                    (Text("file") :> <<Text("a")>>)
    /\ DOMAIN FormFiles = {Text("file")}
    /\ Len(FormFiles[Text("file")]) = 2
    /\ resp.json.body.v[Text("note")] = JArr(<<JStr(Text("a")), JStr(Text("b"))>>)
    /\ resp.json.body.v[Text("file")].t = "arr"
    /\ Len(resp.json.body.v[Text("file")].v) = 2
    /\ resp.json.body.v[Text("file")].v[1].t = "obj"

(***************************************************************************)
(* Properties of concurrent requests.                                      *)
(***************************************************************************)
\* the fields of the response the request determines
RequestFields == {"full_url", "method", "headers", "body"}
\* the request goroutine g was given, as it arrived
Arrived(g, r) ==
    /\ r.Header = conn[g].Header
    /\ r.Method = conn[g].Method
    /\ r.URL = conn[g].URL
    /\ r.RemoteAddr = conn[g].RemoteAddr

\* C20 (request isolation): however the handlers of concurrent requests
\* interleave, the response to a request (full_url, method, headers, body)
\* is the one the handler gives that request on its own; a step of one
\* handler changes no local, request or response of another, and the log,
\* the one thing they share, is only appended to.
C20_Isolation ==
    /\ [](\A g \in Handlers : gpc[g] = "done" =>
            \E r \in ConcRequests : \E now \in Times :
                /\ Arrived(g, r)
                /\ written[g].status = echoHandler(r, r.Body, now).resp.status
                /\ \A f \in RequestFields :
                      written[g].json[f] = echoHandler(r, r.Body, now).resp.json[f])
    /\ [][/\ \A g \in Handlers :
                (frames'[g] # frames[g] \/ written'[g] # written[g] \/ conn'[g] # conn[g])
                => gpc'[g] # gpc[g]
           /\ \/ sink' = sink
              \/ /\ Len(sink') = Len(sink) + 1
                 /\ SubSeq(sink', 1, Len(sink)) = sink]_vars

\* two different requests were answered, each with its own method and body,
\* by handlers whose log blocks interleaved
C20_Witness ==
    /\ \A g \in Handlers : gpc[g] = "done"
    /\ conn["g1"].Method # conn["g2"].Method
    /\ Len(sink) = 4
    /\ sink[1].by # sink[2].by
    /\ sink[3].by # sink[4].by
    /\ \A g \in Handlers : written[g].json.method = JStr(conn[g].Method)
    /\ written["g1"].json.body # written["g2"].json.body

====
